---- MODULE Spec2Model ----
(***************************************************************************)
(* A model of the generation core of chat-ui:                              *)
(*   - streamToAsyncIterable (src/lib/utils/streamToAsyncIterable.ts), an  *)
(*     async generator over a ReadableStream reader;                       *)
(*   - generateFromDefaultEndpoint (src/unnamed/part_001), one generation  *)
(*     request against the default model, with its three dispatch paths,   *)
(*     the buffered read loop and the text cleaning at its end.            *)
(* JavaScript runs a continuation to completion between two awaits, so     *)
(* every action below is the code between two suspension points.           *)
(***************************************************************************)
EXTENDS Naturals, Integers, Sequences, FiniteSets, TLC

\* ------------------------------------------------------------------ bounds
\* Chunks a backend (or the wrapped reader) delivers before it must end.
MaxChunks == 3
\* Consumer requests (next/return) that may wait in the async generator's queue.
MaxPending == 2
\* next() calls a consumer of the async generator makes.
MaxNexts == 5
\* Pieces a raw text handed to the cleaning step is put together from.
MaxPieces == 3
\* Endpoints a raw model lists.
MaxEndpoints == 2

VARIABLES
    \* ---- streamToAsyncIterable: one generator object
    itState,      \* "suspendedStart" | "awaitRead" | "suspendedYield" | "completed"
    itQueue,      \* the generator's request queue, head = the request being served
    itAcquired,   \* stream.getReader() returned a reader
    itReleases,   \* number of reader.releaseLock() calls
    itReads,      \* number of reader.read() calls
    itNexts,      \* number of next() calls of the consumer
    itReturns,    \* number of return() calls of the consumer (break / return)
    itSource,     \* the values reader.read() has resolved with, in order
    itYielded,    \* the values delivered to the consumer, in order
    itExit        \* how the generator body was left

VARIABLES
    \* ---- generateFromDefaultEndpoint: one call
    pc,           \* "idle" | "awaitFetch" | "awaitCreate" | "awaitErrText" | "reading"
                  \*   | "returned" | "thrown"
    host,         \* randomEndpoint.host
    prompt,       \* the prompt argument
    newParameters,\* the merged parameters (lines 19-23)
    fetchCount,   \* network requests dispatched: fetch, aws.fetch, completions.create
    resp,         \* the Response examined at lines 105-111
    aborted,      \* abortController.signal.aborted
    abortedInFlight, \* the signal fired before the call had returned or thrown
    body,         \* the stream resp.body with the pending read of its reader
    locked,       \* the reader of resp.body holds the lock
    acquired,     \* resp.body.getReader() was called (line 114)
    releases,     \* number of reader.releaseLock() calls (line 127)
    prodPc,       \* start(controller), lines 70-78: "none" | "awaitChunk" | "finished" | "threw"
    prodErr,      \* what ended start() by exception
    upReqs,       \* next-chunk requests made to the completion iterator
    lateReqs,     \* those made while the signal was already aborted
    upDone,       \* the completion iterator reported done
    produced,     \* chunks the backend delivered, in order
    enqueued,     \* chunks passed to controller.enqueue, in order
    result,       \* chunks decoded into `result` by the read loop, in order
    outcome,      \* how the call ended
    delivered     \* text deltas the caller has observed

VARIABLES
    \* ---- the cleaning step (lines 131-142) applied to a text, and to its own output
    clPc,         \* "input" | "cleaned" | "recleaned"
    clRaw,        \* results[0].generated_text
    clPrompt,     \* prompt
    clStops,      \* newParameters.stop
    clOut,        \* the cleaned text
    clOut2        \* the cleaned text, cleaned again

VARIABLES
    \* ---- the configuration a call reads, and what it draws from it (lines 19-25, 53-66)
    defaultModel,  \* models[0], shared by every call
    parameters,    \* the parameters argument
    randomEndpoint,\* modelEndpoint(defaultModel)
    clientBaseURL, \* the baseURL option of new OpenAI(...), "none" when no client is made
    sent           \* the parameters and prompt of the request sent to the backend

callVars == <<parameters, randomEndpoint, clientBaseURL, sent>>

VARIABLES
    \* ---- models.ts evaluated on a raw configuration, and evaluated again
    cfgPc,        \* "raw" | "loaded" | "reloaded"
    MODELS,       \* the parsed JSON of the MODELS variable: an array of raw models
    fetchedTexts,        \* what the fetch of each model's prepromptUrl gave at the first load
    models,       \* the exported models of the first load, or how it failed
    fetchedTextsAgain,   \* the same for the second load
    modelsAgain

VARIABLES
    \* ---- a second call of generateFromDefaultEndpoint in the same process
    other         \* the state of the call that is not running now

cfgVars == <<cfgPc, MODELS, fetchedTexts, models, fetchedTextsAgain, modelsAgain>>

clVars == <<clPc, clRaw, clPrompt, clStops, clOut, clOut2>>

reqVars == <<pc, host, prompt, newParameters, fetchCount, resp, aborted, abortedInFlight,
             body, locked, acquired, releases, prodPc, prodErr, upReqs, lateReqs, upDone,
             produced, enqueued, result, outcome, delivered>>

itVars == <<itState, itQueue, itAcquired, itReleases, itReads,
            itNexts, itReturns, itSource, itYielded, itExit>>

\* ------------------------------------------------------------------ helpers
IsPrefix(s, t) == Len(s) <= Len(t) /\ SubSeq(t, 1, Len(s)) = s

\* ============================================================ strings ====
\* A string is the sequence of its characters.
WhiteSpace == {" ", "\n", "\t"}

\* The markers of lines 132 and 136, and PUBLIC_SEP_TOKEN.
StartOfText == <<"<","|","s","t","a","r","t","o","f","t","e","x","t","|",">">>
EndOfText == <<"<","|","e","n","d","o","f","t","e","x","t","|",">">>
PUBLIC_SEP_TOKEN == <<"<","/","s",">">>

\* String.prototype.startsWith / endsWith
StartsWith(s, pre) == Len(pre) <= Len(s) /\ SubSeq(s, 1, Len(pre)) = pre
EndsWith(s, suf) == Len(suf) <= Len(s) /\ SubSeq(s, Len(s) - Len(suf) + 1, Len(s)) = suf

\* s.slice(0, -n) as JavaScript computes it: -0 is 0, so slice(0, -0) is slice(0, 0), the
\* empty string; a negative end counts from the end of the string.
SliceToMinus(s, n) ==
    IF n = 0 THEN <<>>
    ELSE IF n >= Len(s) THEN <<>>
    ELSE SubSeq(s, 1, Len(s) - n)

\* String.prototype.trimEnd
RECURSIVE TrimEnd(_)
TrimEnd(s) ==
    IF s = <<>> THEN s
    ELSE IF s[Len(s)] \in WhiteSpace THEN TrimEnd(SubSeq(s, 1, Len(s) - 1))
    ELSE s

\* $lib/utils/trimPrefix: drop `prefix` from the start of `input` when it is there.
trimPrefix(input, prefix) ==
    IF StartsWith(input, prefix) THEN SubSeq(input, Len(prefix) + 1, Len(input)) ELSE input

\* $lib/utils/trimSuffix: drop `end` from the end of `input` when it is there.
trimSuffix(input, end) ==
    IF EndsWith(input, end) THEN SubSeq(input, 1, Len(input) - Len(end)) ELSE input

RECURSIVE StopLoop(_, _)
\* Lines 136-140: one pass over the stop sequences, in the order listed.
StopLoop(generated_text, stops) ==
    IF stops = <<>> THEN generated_text
    ELSE LET stop == Head(stops)
         IN StopLoop(IF EndsWith(generated_text, stop)
                     THEN TrimEnd(SliceToMinus(generated_text, Len(stop)))
                     ELSE generated_text,
                     Tail(stops))

\* newParameters?.stop ?? []  (line 136)
StopOf(params) ==
    IF "stop" \in DOMAIN params /\ params["stop"] # "undefined" THEN params["stop"] ELSE <<>>

\* Lines 131-134: the start-of-text marker, then the prompt, are dropped from the start,
\* the separator token from the end, and whitespace is trimmed at the end.
Unprefixed(text, p) ==
    TrimEnd(trimSuffix(trimPrefix(trimPrefix(text, StartOfText), p), PUBLIC_SEP_TOKEN))

\* String.prototype.trimStart
RECURSIVE TrimStart(_)
TrimStart(s) ==
    IF s = <<>> THEN s
    ELSE IF s[1] \in WhiteSpace THEN TrimStart(Tail(s))
    ELSE s

\* Lines 131-142 with String.prototype.trim in place of trimEnd at line 134.
CleanTrimBoth(text, p, stops) ==
    StopLoop(TrimStart(Unprefixed(text, p)), stops \o <<EndOfText>>)

\* Lines 131-142: the text generateFromDefaultEndpoint returns for results[0].generated_text.
Clean(text, p, stops) ==
    StopLoop(Unprefixed(text, p), stops \o <<EndOfText>>)

\* ============================================ ReadableStream (resp.body) ====
\* The stream with the one read request its reader may have outstanding:
\*   state    "none" | "readable" | "closed" | "errored"
\*   queue    chunks enqueued and not yet read
\*   closeReq close() was called while chunks were still queued
\*   slot     the reader's read request: none, pending, or settled and not yet consumed
NoSlot == [st |-> "none", value |-> 0]
PendingSlot == [st |-> "pending", value |-> 0]
DoneSlot == [st |-> "done", value |-> 0]
RejectedSlot == [st |-> "rejected", value |-> 0]
ValueSlot(c) == [st |-> "value", value |-> c]

NoStream == [state |-> "none", queue |-> <<>>, closeReq |-> FALSE, slot |-> NoSlot]
NewStream == [state |-> "readable", queue |-> <<>>, closeReq |-> FALSE, slot |-> NoSlot]

\* ReadableStreamDefaultControllerCanCloseOrEnqueue
CanCloseOrEnqueue(s) == s.state = "readable" /\ ~s.closeReq

\* controller.enqueue(c) on a stream that accepts it: a pending read takes the chunk,
\* otherwise it is queued.
Enqueue(s, c) ==
    IF s.slot.st = "pending" THEN [s EXCEPT !.slot = ValueSlot(c)]
    ELSE [s EXCEPT !.queue = Append(@, c)]

\* controller.close() on a stream that accepts it.
Close(s) ==
    IF s.queue = <<>>
    THEN [s EXCEPT !.closeReq = TRUE, !.state = "closed",
                   !.slot = IF @.st = "pending" THEN DoneSlot ELSE @]
    ELSE [s EXCEPT !.closeReq = TRUE]

\* controller.error(e): nothing unless the stream is readable.
ErrorStream(s) ==
    IF s.state # "readable" THEN s
    ELSE [s EXCEPT !.state = "errored", !.queue = <<>>,
                   !.slot = IF @.st = "pending" THEN RejectedSlot ELSE @]

\* reader.read(): settled at once from the queue or the final state, else pending.
Read(s) ==
    IF s.queue # <<>>
    THEN [s EXCEPT !.queue = Tail(@), !.slot = ValueSlot(Head(s.queue)),
                   !.state = IF s.closeReq /\ Tail(s.queue) = <<>> THEN "closed" ELSE @]
    ELSE IF s.state = "closed" THEN [s EXCEPT !.slot = DoneSlot]
    ELSE IF s.state = "errored" THEN [s EXCEPT !.slot = RejectedSlot]
    ELSE [s EXCEPT !.slot = PendingSlot]

\* ReadableStreamCancel on a readable stream: the stream closes, a pending read settles
\* {done: true}, the queue is dropped (the cancel algorithm runs after it).
CancelStream(s) ==
    [s EXCEPT !.state = "closed", !.queue = <<>>,
              !.slot = IF @.st = "pending" THEN DoneSlot ELSE @]

\* ============================================ models.ts: configuration ====
\* A JavaScript object is a record; a property it does not have reads as undefined.
Get(obj, key) == IF key \in DOMAIN obj THEN obj[key] ELSE "undefined"

\* The environment of lines 2-7.
OPENAI_API_KEY == "sk-env"
HF_ACCESS_TOKEN == "hf-env"

\* z.string().url(): the strings that are URLs, among those the configurations use.
OpenAIDefaultBaseURL == "https://api.openai.com/v1"
Urls == {OpenAIDefaultBaseURL, "https://llm.example/v1", "https://tgi.example",
         "https://sm.example", "https://cfg.example/preprompt"}
IsUrl(s) == s \in Urls

\* What a schema answers for an input it rejects (a ZodError is thrown).
Invalid == [error |-> "ZodError"]
IsInvalid(r) == "error" \in DOMAIN r

\* commonEndpoint (lines 37-39): weight, a positive integer, 1 when it is not given.
WeightOk(raw) == "weight" \in DOMAIN raw => raw.weight \in Nat \ {0}
WeightOf(raw) == IF "weight" \in DOMAIN raw THEN raw.weight ELSE 1

\* openAICompatibleEndpoint.merge(commonEndpoint) (lines 14-21, 43): keys the schema
\* does not name are stripped from the output.
ParseOpenAI(raw) ==
    IF /\ Get(raw, "host") = "openai-compatible"
       /\ "baseURL" \in DOMAIN raw => IsUrl(raw.baseURL)
       /\ WeightOk(raw)
    THEN [host |-> "openai-compatible",
          baseURL |-> IF "baseURL" \in DOMAIN raw THEN raw.baseURL ELSE OpenAIDefaultBaseURL,
          apiKey |-> IF "apiKey" \in DOMAIN raw THEN raw.apiKey ELSE OPENAI_API_KEY,
          type |-> IF "type" \in DOMAIN raw THEN raw.type ELSE "chat_completions",
          weight |-> WeightOf(raw)]
    ELSE Invalid

\* sagemakerEndpoint.merge(commonEndpoint) (lines 23-29, 44)
ParseSageMaker(raw) ==
    IF /\ Get(raw, "host") = "sagemaker"
       /\ IsUrl(Get(raw, "url"))
       /\ Get(raw, "accessKey") \notin {"undefined", ""}
       /\ Get(raw, "secretKey") \notin {"undefined", ""}
       /\ WeightOk(raw)
    THEN [host |-> "sagemaker", url |-> raw.url, accessKey |-> raw.accessKey,
          secretKey |-> raw.secretKey, weight |-> WeightOf(raw)]
    ELSE Invalid

\* tgiEndpoint.merge(commonEndpoint) (lines 31-35, 45): host is "tgi" or not given.
ParseTGI(raw) ==
    IF /\ Get(raw, "host") \in {"tgi", "undefined"}
       /\ IsUrl(Get(raw, "url"))
       /\ Get(raw, "authorization") # ""
       /\ WeightOk(raw)
    THEN [k \in {"url", "authorization", "weight"} \cup (DOMAIN raw \cap {"host"}) |->
            CASE k = "url" -> raw.url
              [] k = "authorization" ->
                    IF "authorization" \in DOMAIN raw THEN raw.authorization
                    ELSE "Bearer " \o HF_ACCESS_TOKEN
              [] k = "weight" -> WeightOf(raw)
              [] OTHER -> raw[k]]
    ELSE Invalid

\* endpoint (lines 41-47): the union answers with the first variant that accepts.
endpoint(raw) ==
    IF ~IsInvalid(ParseOpenAI(raw)) THEN ParseOpenAI(raw)
    ELSE IF ~IsInvalid(ParseSageMaker(raw)) THEN ParseSageMaker(raw)
    ELSE ParseTGI(raw)

\* combinedEndpoint (lines 49-59): the variant of the host parses the data once more.
combinedEndpoint(raw) ==
    LET data == endpoint(raw)
    IN IF IsInvalid(data) THEN Invalid
       ELSE IF Get(data, "host") \in {"tgi", "undefined"} THEN ParseTGI(data)
       ELSE IF data.host = "sagemaker" THEN ParseSageMaker(data)
       ELSE ParseOpenAI(data)

\* The parameters schema (lines 98-109): the three numbers are required and in range,
\* stop is optional, .passthrough() keeps every other key.
ParametersOk(p) ==
    /\ {"temperature", "truncate", "max_new_tokens"} \subseteq DOMAIN p
    /\ p.temperature \in 0..1
    /\ p.truncate \in Nat \ {0}
    /\ p.max_new_tokens \in Nat \ {0}

\* The keys of modelConfig that are modelled besides name, which is required, and
\* preprompt, which defaults to "" (line 77): all of these are .optional().
OptionalModelKeys == {"id", "displayName", "prepromptUrl", "endpoints", "parameters"}

\* modelConfig (lines 61-110) on one raw model: `endpoints` and `parameters` are
\* .optional(), so a model that has neither is accepted as it is.
modelConfig(raw) ==
    IF /\ Get(raw, "name") \notin {"undefined", ""}
       /\ "prepromptUrl" \in DOMAIN raw => IsUrl(raw.prepromptUrl)
       /\ "endpoints" \in DOMAIN raw =>
             \A i \in 1..Len(raw.endpoints) : ~IsInvalid(combinedEndpoint(raw.endpoints[i]))
       /\ "parameters" \in DOMAIN raw => ParametersOk(raw.parameters)
    THEN [k \in {"name", "preprompt"} \cup (DOMAIN raw \cap OptionalModelKeys) |->
            CASE k = "preprompt" -> IF "preprompt" \in DOMAIN raw THEN raw.preprompt ELSE ""
              [] k = "endpoints" ->
                    [i \in 1..Len(raw.endpoints) |-> combinedEndpoint(raw.endpoints[i])]
              [] OTHER -> raw[k]]
    ELSE Invalid

\* What fetch(m.prepromptUrl).then((r) => r.text()) may give at one load: one of the
\* texts the URL serves at that moment, or a rejection.
FetchFailed == "fetch failed"
Fetched == {"You are helpful.", "You are terse.", FetchFailed}

\* Line 121 with the condition dropped: the fetched text is taken whatever the model says.
PrepromptAlwaysFetched(m, text) == text

\* Line 121: the text fetched from prepromptUrl when the model has one, else preprompt.
PrepromptOf(m, text) ==
    IF "prepromptUrl" \in DOMAIN m THEN text ELSE m.preprompt

\* Line 122: {...m.parameters, stop_sequences: m.parameters?.stop}. A key whose value
\* is undefined is left out of the record.
ProcessParameters(m) ==
    LET p == IF "parameters" \in DOMAIN m THEN m.parameters ELSE <<>>
    IN [k \in DOMAIN p \cup (IF "stop" \in DOMAIN p THEN {"stop_sequences"} ELSE {}) |->
          IF k = "stop_sequences" THEN p.stop ELSE p[k]]

\* processModel (lines 114-123) with the text its fetch resolved to. The compiled
\* template (line 118) and the message tokens (lines 116-117) are left out.
processModel(m, text) ==
    [k \in DOMAIN m \cup {"id", "displayName", "parameters"} |->
       CASE k = "id" -> IF Get(m, "id") \in {"undefined", ""} THEN m.name ELSE m.id
         [] k = "displayName" ->
               IF Get(m, "displayName") \in {"undefined", ""} THEN m.name ELSE m.displayName
         [] k = "preprompt" -> PrepromptOf(m, text)
         [] k = "parameters" -> ProcessParameters(m)
         [] OTHER -> m[k]]

\* Lines 112 and 125: the array schema parses MODELS, then every model is processed;
\* `texts` is what the fetch of each model gave. One rejected model or one rejected
\* fetch fails the whole load.
LoadModels(raw, texts) ==
    IF \E i \in 1..Len(raw) : IsInvalid(modelConfig(raw[i]))
    THEN [ok |-> FALSE, error |-> "ZodError"]
    ELSE IF \E i \in 1..Len(raw) : "prepromptUrl" \in DOMAIN raw[i] /\ texts[i] = FetchFailed
    THEN [ok |-> FALSE, error |-> "FetchError"]
    ELSE [ok |-> TRUE,
          models |-> [i \in 1..Len(raw) |-> processModel(modelConfig(raw[i]), texts[i])]]

\* Raw endpoints as a MODELS entry may list them: accepted ones of every variant, and
\* ones a schema rejects (no credentials, a url that is none).
RawOpenAI == [host |-> "openai-compatible"]
RawOpenAIBase == [host |-> "openai-compatible", baseURL |-> "https://llm.example/v1"]
RawTGI == [host |-> "tgi", url |-> "https://tgi.example"]
RawTGINoHost == [url |-> "https://tgi.example", weight |-> 3]
RawSageMaker ==
    [host |-> "sagemaker", url |-> "https://sm.example", accessKey |-> "ak", secretKey |-> "sk"]
RawSageMakerNoKeys == [host |-> "sagemaker", url |-> "https://sm.example"]
RawBadUrl == [host |-> "tgi", url |-> "tgi.example", weight |-> 0]

RawEndpoints ==
    {RawOpenAI, RawOpenAIBase, RawTGI, RawTGINoHost, RawSageMaker, RawSageMakerNoKeys,
     RawBadUrl}

\* ========================================= generateFromDefaultEndpoint ====
Hosts == {"tgi", "sagemaker", "openai-compatible"}

\* The strings the model's requests are made of.
Hello == <<"H","e","l","l","o">>
STOP == <<"S","T","O","P">>
END == <<"E","N","D">>
Continuation == <<" ","c","o","n","t","i","n","u","a","t","i","o","n"," ">>
ErrorBody == <<"o","o","p","s">>
EmptyBodyMessage == <<"R","e","s","p","o","n","s","e"," ","b","o","d","y"," ","i","s"," ","e","m","p","t","y">>

\* The MODELS entry of the default model: an endpoint of every variant, the OpenAI one
\* with and without a baseURL of its own, and parameters with a stop sequence and a
\* key the schema passes through.
DefaultRawModel ==
    [name |-> "m",
     endpoints |-> <<RawTGI, RawSageMaker, RawOpenAI, RawOpenAIBase>>,
     parameters |-> [temperature |-> 1, truncate |-> 1000, max_new_tokens |-> 1024,
                     stop |-> <<STOP>>, return_full_text |-> TRUE]]

\* defaultModel = models[0] (models.ts line 141), loaded from that entry.
DefaultModel == processModel(modelConfig(DefaultRawModel), "")

\* defaultModel.parameters (models.ts line 122) of the configured default model.
DefaultParameters == DefaultModel.parameters

\* The `parameters` argument: Partial<Parameters>, possibly absent; at run time it may
\* carry any key.
Overrides ==
    { <<>>, [stop |-> <<END, STOP>>], [max_new_tokens |-> 20], [return_full_text |-> TRUE] }

\* {...parameters, ...defaultModel.parameters, return_full_text: false}: the spreads of
\* lines 20-21 in the other order.
MergeDefaultsLast(defaults, overrides) ==
    [k \in DOMAIN defaults \cup DOMAIN overrides \cup {"return_full_text"} |->
        IF k = "return_full_text" THEN FALSE
        ELSE IF k \in DOMAIN defaults THEN defaults[k]
        ELSE overrides[k]]

\* Lines 19-23: {...defaultModel.parameters, ...parameters, return_full_text: false}
Merge(defaults, overrides) ==
    [k \in DOMAIN defaults \cup DOMAIN overrides \cup {"return_full_text"} |->
        IF k = "return_full_text" THEN FALSE
        ELSE IF k \in DOMAIN overrides THEN overrides[k]
        ELSE defaults[k]]

\* Lines 19-23: the object literal is a new object, the spread of line 20 only reads
\* defaultModel.parameters, which is afterwards what it was.
AfterSpread(defaults, overrides) == defaults

\* modelEndpoint(defaultModel): one of the model's endpoints, any of them.
modelEndpoint(model) ==
    IF "endpoints" \in DOMAIN model
    THEN {model.endpoints[i] : i \in 1..Len(model.endpoints)}
    ELSE {}

\* Lines 31, 52, 90: the branch taken for an endpoint; every host other than
\* "sagemaker" and "openai-compatible" is the TGI branch.
BranchOf(e) ==
    IF Get(e, "host") = "sagemaker" THEN "sagemaker"
    ELSE IF Get(e, "host") = "openai-compatible" THEN "openai-compatible"
    ELSE "tgi"

\* Line 56: the baseURL option of new OpenAI(...) is read from randomEndpoint.url.
ClientBaseURL(e) == Get(e, "url")

\* What is sent to the backend. Lines 32-35 and 97-100: every merged parameter and
\* the prompt as `inputs`; lines 59-66: three of the merged parameters, under the
\* names of the completions API.
RequestBody(branch, params, p) ==
    IF branch = "openai-compatible"
    THEN [prompt |-> p, stream |-> TRUE,
          max_tokens |-> params.max_new_tokens,
          stop |-> params.stop,
          temperature |-> params.temperature]
    ELSE [k \in DOMAIN params \cup {"inputs"} |-> IF k = "inputs" THEN p ELSE params[k]]

\* The Response: whether one was received, resp.ok, whether resp.body is set, and the
\* text resp.text() reads from it.
NoResp == [got |-> FALSE, ok |-> FALSE, hasBody |-> FALSE, text |-> <<>>]
NoOutcome == [kind |-> "none", text |-> <<>>]
Thrown(kind, text) == [kind |-> kind, text |-> text]

Terminal == pc \in {"returned", "thrown"}

\* The state before the call: the loaded default model, and nothing of the call yet.
DispInit ==
    /\ defaultModel = DefaultModel
    /\ parameters = <<>>
    /\ randomEndpoint = <<>>
    /\ clientBaseURL = "none"
    /\ sent = <<>>

ReqInit ==
    /\ pc = "idle"
    /\ host = "none"
    /\ prompt = <<>>
    /\ newParameters = <<>>
    /\ fetchCount = 0
    /\ resp = NoResp
    /\ aborted = FALSE
    /\ abortedInFlight = FALSE
    /\ body = NoStream
    /\ locked = FALSE
    /\ acquired = FALSE
    /\ releases = 0
    /\ prodPc = "none"
    /\ prodErr = "none"
    /\ upReqs = 0
    /\ lateReqs = 0
    /\ upDone = FALSE
    /\ produced = <<>>
    /\ enqueued = <<>>
    /\ result = <<>>
    /\ outcome = NoOutcome
    /\ delivered = <<>>

\* Lines 15-103 up to the first await: the parameters are merged, an endpoint is drawn
\* and the one request of its branch is sent.
Dispatch ==
    /\ pc = "idle"
    /\ \E p \in {Hello}, o \in Overrides, e \in modelEndpoint(defaultModel) :
          /\ prompt' = p
          /\ parameters' = o
          /\ newParameters' = Merge(defaultModel.parameters, o)
          /\ defaultModel' =
                [defaultModel EXCEPT !.parameters = AfterSpread(defaultModel.parameters, o)]
          /\ randomEndpoint' = e
          /\ host' = BranchOf(e)
          /\ clientBaseURL' =
                IF BranchOf(e) = "openai-compatible" THEN ClientBaseURL(e) ELSE "none"
          /\ sent' = RequestBody(BranchOf(e), Merge(defaultModel.parameters, o), p)
          /\ pc' = IF BranchOf(e) = "openai-compatible" THEN "awaitCreate" ELSE "awaitFetch"
    /\ fetchCount' = fetchCount + 1
    /\ UNCHANGED <<resp, aborted, abortedInFlight, body, locked, acquired, releases,
                   prodPc, prodErr, upReqs, lateReqs, upDone, produced, enqueued, result,
                   outcome, delivered>>

\* What results[0].generated_text may be when the backend answers with a one-element array.
GeneratedTexts ==
    { Hello \o Continuation \o STOP,
      <<"o","k">> \o STOP \o EndOfText,
      StartOfText \o <<"o","k"," ">> \o PUBLIC_SEP_TOKEN }

\* What JSON.parse(result) and results[0] (lines 129-132) can make of the text read:
\* nothing was read, so the text is "" and does not parse; otherwise the body is
\* whatever the backend sent.
ParseShapes(text) ==
    IF text = <<>> THEN {"invalid"} ELSE {"invalid", "emptyArray", "array"}

\* decoder.decode(value, {stream: true}) accepts a BufferSource only: the bytes of a
\* fetch body decode, the strings enqueued at line 75 make it throw a TypeError.
DecodeThrows(h) == h = "openai-compatible"

\* The branch of lines 105-107 taken again instead of failing.
OnNotOkRetry ==
    /\ pc' = "awaitFetch"
    /\ fetchCount' = fetchCount + 1
    /\ UNCHANGED outcome

\* Lines 105-106 on a response that is not ok: the call awaits resp.text().
OnNotOk ==
    /\ pc' = "awaitErrText"
    /\ UNCHANGED <<fetchCount, outcome>>

\* Lines 105-111 with the two checks in the other order: the body first, then resp.ok.
FetchResolvesBodyFirst ==
    /\ pc = "awaitFetch"
    /\ \E ok \in BOOLEAN, hasBody \in BOOLEAN, t \in {<<>>, ErrorBody} :
          /\ (ok \/ ~hasBody) => t = <<>>
          /\ resp' = [got |-> TRUE, ok |-> ok, hasBody |-> hasBody, text |-> t]
          /\ IF ~hasBody
             THEN /\ pc' = "thrown"
                  /\ outcome' = Thrown("Error", EmptyBodyMessage)
                  /\ UNCHANGED <<body, locked, acquired, fetchCount>>
             ELSE IF ~ok
             THEN /\ OnNotOk
                  /\ UNCHANGED <<body, locked, acquired>>
             ELSE /\ pc' = "reading"
                  /\ acquired' = TRUE
                  /\ locked' = TRUE
                  /\ body' = Read(NewStream)
                  /\ UNCHANGED <<outcome, fetchCount>>
    /\ UNCHANGED <<host, prompt, newParameters, aborted, abortedInFlight, releases,
                   prodPc, prodErr, upReqs, lateReqs, upDone, produced, enqueued, result,
                   delivered>>

\* fetch / aws.fetch resolves (lines 44, 91), then lines 105-120 up to the first read.
FetchResolves ==
    /\ pc = "awaitFetch"
    /\ \E ok \in BOOLEAN, hasBody \in BOOLEAN, t \in {<<>>, ErrorBody} :
          /\ (ok \/ ~hasBody) => t = <<>>
          /\ resp' = [got |-> TRUE, ok |-> ok, hasBody |-> hasBody, text |-> t]
          /\ IF ~ok
             THEN /\ OnNotOk
                  /\ UNCHANGED <<body, locked, acquired>>
             ELSE IF ~hasBody
             THEN /\ pc' = "thrown"
                  /\ outcome' = Thrown("Error", EmptyBodyMessage)
                  /\ UNCHANGED <<body, locked, acquired, fetchCount>>
             ELSE /\ pc' = "reading"
                  /\ acquired' = TRUE
                  /\ locked' = TRUE
                  /\ body' = Read(NewStream)
                  /\ UNCHANGED <<outcome, fetchCount>>
    /\ UNCHANGED <<host, prompt, newParameters, aborted, abortedInFlight, releases,
                   prodPc, prodErr, upReqs, lateReqs, upDone, produced, enqueued, result,
                   delivered>>

\* fetch / aws.fetch rejects: the exception leaves the function.
FetchRejects ==
    /\ pc = "awaitFetch"
    /\ pc' = "thrown"
    /\ outcome' = Thrown("NetworkError", <<>>)
    /\ UNCHANGED <<host, prompt, newParameters, fetchCount, resp, aborted, abortedInFlight,
                   body, locked, acquired, releases, prodPc, prodErr, upReqs, lateReqs,
                   upDone, produced, enqueued, result, delivered>>

\* Line 106: new Error(await resp.text())
ErrorOf(r) == Thrown("Error", r.text)

\* resp.text() resolves: line 106 throws.
ErrTextResolves ==
    /\ pc = "awaitErrText"
    /\ pc' = "thrown"
    /\ outcome' = ErrorOf(resp)
    /\ UNCHANGED <<host, prompt, newParameters, fetchCount, resp, aborted, abortedInFlight,
                   body, locked, acquired, releases, prodPc, prodErr, upReqs, lateReqs,
                   upDone, produced, enqueued, result, delivered>>

\* openai.completions.create rejects (line 58): the exception leaves the function.
CreateRejects ==
    /\ pc = "awaitCreate"
    /\ pc' = "thrown"
    /\ outcome' = Thrown("ClientError", <<>>)
    /\ UNCHANGED <<host, prompt, newParameters, fetchCount, resp, aborted, abortedInFlight,
                   body, locked, acquired, releases, prodPc, prodErr, upReqs, lateReqs,
                   upDone, produced, enqueued, result, delivered>>

\* openai.completions.create resolves (line 58). Lines 69-89: the ReadableStream
\* constructor runs start() at once, up to its first await, the first next() of the
\* completion iterator; then the Response is built with status 200 and lines 105-120
\* take its reader and issue the first read.
CreateResolves ==
    /\ pc = "awaitCreate"
    /\ prodPc' = "awaitChunk"
    /\ upReqs' = upReqs + 1
    /\ lateReqs' = IF aborted THEN lateReqs + 1 ELSE lateReqs
    /\ resp' = [got |-> TRUE, ok |-> TRUE, hasBody |-> TRUE, text |-> <<>>]
    /\ acquired' = TRUE
    /\ locked' = TRUE
    /\ body' = Read(NewStream)
    /\ pc' = "reading"
    /\ UNCHANGED <<host, prompt, newParameters, fetchCount, aborted, abortedInFlight,
                   releases, prodErr, upDone, produced, enqueued, result, outcome, delivered>>

\* Line 77, controller.close(): a TypeError when the stream no longer accepts it; the
\* rejection of start() then errors the stream if it is still readable.
ProducerClose ==
    IF CanCloseOrEnqueue(body)
    THEN /\ body' = Close(body)
         /\ prodPc' = "finished"
         /\ UNCHANGED prodErr
    ELSE /\ body' = ErrorStream(body)
         /\ prodPc' = "threw"
         /\ prodErr' = "TypeError"

\* Lines 72-75 with `continue` where the code has `break`.
LoopBodyContinue(c) ==
    IF aborted
    THEN /\ upReqs' = upReqs + 1
         /\ lateReqs' = lateReqs + 1
         /\ UNCHANGED <<body, prodPc, prodErr, enqueued>>
    ELSE IF CanCloseOrEnqueue(body)
    THEN /\ body' = Enqueue(body, c)
         /\ enqueued' = Append(enqueued, c)
         /\ upReqs' = upReqs + 1
         /\ UNCHANGED <<lateReqs, prodPc, prodErr>>
    ELSE /\ body' = ErrorStream(body)
         /\ prodPc' = "threw"
         /\ prodErr' = "TypeError"
         /\ UNCHANGED <<enqueued, upReqs, lateReqs>>

\* Lines 72-75 without the enqueue: the delta is kept back and the next one requested.
LoopBodyBuffered(c) ==
    IF aborted
    THEN /\ ProducerClose
         /\ UNCHANGED <<enqueued, upReqs, lateReqs>>
    ELSE /\ upReqs' = upReqs + 1
         /\ UNCHANGED <<body, enqueued, lateReqs, prodPc, prodErr>>

\* Lines 71-77 for one chunk of the completion: when the signal is aborted the loop
\* breaks and line 77 closes the stream; otherwise the delta is enqueued (a TypeError
\* when the stream does not accept it) and the loop asks the iterator for the next chunk.
LoopBody(c) ==
    IF aborted
    THEN /\ ProducerClose
         /\ UNCHANGED <<enqueued, upReqs, lateReqs>>
    ELSE IF CanCloseOrEnqueue(body)
    THEN /\ body' = Enqueue(body, c)
         /\ enqueued' = Append(enqueued, c)
         /\ upReqs' = upReqs + 1
         /\ UNCHANGED <<lateReqs, prodPc, prodErr>>
    ELSE /\ body' = ErrorStream(body)
         /\ prodPc' = "threw"
         /\ prodErr' = "TypeError"
         /\ UNCHANGED <<enqueued, upReqs, lateReqs>>

\* The completion iterator delivers a chunk to the for await of line 71.
UpstreamChunk ==
    /\ prodPc = "awaitChunk"
    /\ Len(produced) < MaxChunks
    /\ LET c == Len(produced) + 1
       IN /\ produced' = Append(produced, c)
          /\ LoopBody(c)
    /\ UNCHANGED <<pc, host, prompt, newParameters, fetchCount, resp, aborted,
                   abortedInFlight, locked, acquired, releases, upDone, result, outcome,
                   delivered>>

\* The completion iterator reports done: the loop ends and line 77 closes the stream.
UpstreamDone ==
    /\ prodPc = "awaitChunk"
    /\ upDone' = TRUE
    /\ ProducerClose
    /\ UNCHANGED <<pc, host, prompt, newParameters, fetchCount, resp, aborted,
                   abortedInFlight, locked, acquired, releases, upReqs, lateReqs, produced,
                   enqueued, result, outcome, delivered>>

\* The completion iterator rejects: start() rejects and the stream is errored.
UpstreamError ==
    /\ prodPc = "awaitChunk"
    /\ prodPc' = "threw"
    /\ prodErr' = "upstream"
    /\ body' = ErrorStream(body)
    /\ UNCHANGED <<pc, host, prompt, newParameters, fetchCount, resp, aborted,
                   abortedInFlight, locked, acquired, releases, upReqs, lateReqs, upDone,
                   produced, enqueued, result, outcome, delivered>>

\* cancel() of the underlying source (lines 79-81). The stream runs it when whoever
\* holds the stream cancels it while it is readable: the stream closes, its queue is
\* dropped, and abortController.abort() fires the signal. It is the only place that
\* fires the signal: the controller of line 27 is handed to nobody else.
Cancel ==
    /\ prodPc # "none"
    /\ body.state = "readable"
    /\ body' = CancelStream(body)
    /\ aborted' = TRUE
    /\ abortedInFlight' = (abortedInFlight \/ ~Terminal)
    /\ UNCHANGED <<pc, host, prompt, newParameters, fetchCount, resp, locked, acquired,
                   releases, prodPc, prodErr, upReqs, lateReqs, upDone, produced, enqueued,
                   result, outcome, delivered>>

\* The body of a fetch response: the network delivers a chunk, ends the body or fails.
NetHost == host \in {"tgi", "sagemaker"}

NetChunk ==
    /\ NetHost
    /\ CanCloseOrEnqueue(body)
    /\ Len(produced) < MaxChunks
    /\ LET c == Len(produced) + 1
       IN /\ produced' = Append(produced, c)
          /\ body' = Enqueue(body, c)
    /\ UNCHANGED <<pc, host, prompt, newParameters, fetchCount, resp, aborted,
                   abortedInFlight, locked, acquired, releases, prodPc, prodErr, upReqs,
                   lateReqs, upDone, enqueued, result, outcome, delivered>>

NetEnd ==
    /\ NetHost
    /\ CanCloseOrEnqueue(body)
    /\ body' = Close(body)
    /\ UNCHANGED <<pc, host, prompt, newParameters, fetchCount, resp, aborted,
                   abortedInFlight, locked, acquired, releases, prodPc, prodErr, upReqs,
                   lateReqs, upDone, produced, enqueued, result, outcome, delivered>>

NetError ==
    /\ NetHost
    /\ body.state = "readable"
    /\ body' = ErrorStream(body)
    /\ UNCHANGED <<pc, host, prompt, newParameters, fetchCount, resp, aborted,
                   abortedInFlight, locked, acquired, releases, prodPc, prodErr, upReqs,
                   lateReqs, upDone, produced, enqueued, result, outcome, delivered>>

\* Line 123 with the new text put in front of what was read before.
AccumulatePrepend(text, c) == <<c>> \o text

\* Line 123: result += decoder.decode(value, {stream: true})
Accumulate(text, c) == Append(text, c)

\* Line 120 inside a try whose catch goes round the loop again: the rejected read is
\* dropped and the next one issued.
OnReadRejectedRetry ==
    /\ body' = Read([body EXCEPT !.slot = NoSlot])
    /\ UNCHANGED <<pc, outcome, locked, releases, result, delivered>>

\* Line 120 when reader.read() rejects: the exception leaves the function from inside
\* the loop, before line 127.
OnReadRejected ==
    /\ pc' = "thrown"
    /\ outcome' = Thrown("StreamError", <<>>)
    /\ body' = [body EXCEPT !.slot = NoSlot]
    /\ UNCHANGED <<locked, releases, result, delivered>>

\* Lines 122-142 when the read reports done: the loop ends, the reader is released
\* (line 127), the text is parsed (line 129), results[0].generated_text is cleaned
\* (lines 131-140) and returned (line 142).
OnReadDone ==
    /\ locked' = FALSE
    /\ releases' = releases + 1
    /\ body' = [body EXCEPT !.slot = NoSlot]
    /\ \E shape \in ParseShapes(result) :
          CASE shape = "invalid" ->
                 /\ pc' = "thrown"
                 /\ outcome' = Thrown("SyntaxError", <<>>)
                 /\ UNCHANGED delivered
            [] shape = "emptyArray" ->
                 /\ pc' = "thrown"
                 /\ outcome' = Thrown("TypeError", <<>>)
                 /\ UNCHANGED delivered
            [] OTHER ->
                 \E raw \in GeneratedTexts :
                    /\ pc' = "returned"
                    /\ outcome' = [kind |-> "Returned",
                                   text |-> Clean(raw, prompt, StopOf(newParameters))]
                    /\ delivered' = result
    /\ UNCHANGED result

\* reader.read() settles and the loop of lines 119-124 goes on.
ReadSettles ==
    /\ pc = "reading"
    /\ body.slot.st \in {"value", "done", "rejected"}
    /\ CASE body.slot.st = "value" ->
              IF DecodeThrows(host)
              THEN /\ pc' = "thrown"
                   /\ outcome' = Thrown("TypeError", <<>>)
                   /\ body' = [body EXCEPT !.slot = NoSlot]
                   /\ UNCHANGED <<locked, releases, result, delivered>>
              ELSE /\ result' = Accumulate(result, body.slot.value)
                   /\ body' = Read([body EXCEPT !.slot = NoSlot])
                   /\ UNCHANGED <<pc, outcome, locked, releases, delivered>>
         [] body.slot.st = "done" -> OnReadDone
         [] OTHER -> OnReadRejected
    /\ UNCHANGED <<host, prompt, newParameters, fetchCount, resp, aborted, abortedInFlight,
                   acquired, prodPc, prodErr, upReqs, lateReqs, upDone, produced, enqueued>>


\* ================================================= streamToAsyncIterable ====
\* The values the wrapped reader may deliver.
ChunkValues == {"a", "b"}

ItInit ==
    /\ itState = "suspendedStart"
    /\ itQueue = <<>>
    /\ itAcquired = FALSE
    /\ itReleases = 0
    /\ itReads = 0
    /\ itNexts = 0
    /\ itReturns = 0
    /\ itSource = <<>>
    /\ itYielded = <<>>
    /\ itExit = "none"

\* The finally block (lines 12-14): reader.releaseLock(), the generator completes and
\* every request still queued is settled as done.
ItFinally(how) ==
    /\ itReleases' = itReleases + 1
    /\ itState' = "completed"
    /\ itQueue' = <<>>
    /\ itExit' = how

\* Line 8 reading ahead: the loop issues the read it was asked for and the one after.
ItIssueReadAhead(q) ==
    /\ itReads' = itReads + 2
    /\ itState' = "awaitRead"
    /\ itQueue' = q

\* Line 8: the loop issues the next reader.read() and suspends on its promise.
ItIssueRead(q) ==
    /\ itReads' = itReads + 1
    /\ itState' = "awaitRead"
    /\ itQueue' = q

\* The consumer calls next().
ItConsumerNext ==
    /\ itNexts < MaxNexts
    /\ itNexts' = itNexts + 1
    /\ CASE itState = "suspendedStart" ->
              \* the body starts: stream.getReader() (line 5) throws when the stream is
              \* already locked, otherwise the loop issues its first read
              \E alreadyLocked \in BOOLEAN :
                 IF alreadyLocked
                 THEN /\ itState' = "completed"
                      /\ itExit' = "getReaderThrew"
                      /\ UNCHANGED <<itQueue, itAcquired, itReleases, itReads>>
                 ELSE /\ itAcquired' = TRUE
                      /\ ItIssueRead(<<"next">>)
                      /\ UNCHANGED <<itReleases, itExit>>
         [] itState = "suspendedYield" ->
              /\ ItIssueRead(<<"next">>)
              /\ UNCHANGED <<itAcquired, itReleases, itExit>>
         [] itState = "awaitRead" ->
              /\ Len(itQueue) < MaxPending
              /\ itQueue' = Append(itQueue, "next")
              /\ UNCHANGED <<itState, itAcquired, itReleases, itReads, itExit>>
         [] OTHER ->
              \* completed: the call resolves {done: true} and touches nothing
              UNCHANGED <<itState, itQueue, itAcquired, itReleases, itReads, itExit>>
    /\ UNCHANGED <<itReturns, itSource, itYielded>>

\* The consumer calls return(): a break or return out of for await.
ItConsumerReturn ==
    /\ itReturns < 1
    /\ itReturns' = itReturns + 1
    /\ CASE itState = "suspendedStart" ->
              \* the body never ran: no reader was taken
              /\ itState' = "completed"
              /\ itExit' = "returnBeforeStart"
              /\ UNCHANGED <<itQueue, itReleases>>
         [] itState = "suspendedYield" ->
              ItFinally("return")
         [] itState = "awaitRead" ->
              /\ Len(itQueue) < MaxPending
              /\ itQueue' = Append(itQueue, "return")
              /\ UNCHANGED <<itState, itReleases, itExit>>
         [] OTHER ->
              UNCHANGED <<itState, itQueue, itReleases, itExit>>
    /\ UNCHANGED <<itAcquired, itReads, itNexts, itSource, itYielded>>

\* The value handed to the consumer by `yield value` (line 10).
ItYield(v) == <<v>>

\* reader.read() resolves {done: false, value}: line 10 yields the value to the
\* request being served; the generator then resumes for the next queued request.
ItReadValue ==
    /\ itState = "awaitRead"
    /\ Len(itSource) < MaxChunks
    /\ \E v \in ChunkValues :
       LET rest == Tail(itQueue)
       IN /\ itSource' = Append(itSource, v)
          /\ itYielded' = itYielded \o ItYield(v)
          /\ IF rest = <<>>
             THEN /\ itState' = "suspendedYield"
                  /\ itQueue' = <<>>
                  /\ UNCHANGED <<itReleases, itReads, itExit>>
             ELSE IF Head(rest) = "next"
             THEN /\ ItIssueRead(rest)
                  /\ UNCHANGED <<itReleases, itExit>>
             ELSE /\ ItFinally("return")
                  /\ UNCHANGED itReads
    /\ UNCHANGED <<itAcquired, itNexts, itReturns>>

\* reader.read() resolves {done: true}: line 9 returns, through the finally block.
ItReadDone ==
    /\ itState = "awaitRead"
    /\ ItFinally("done")
    /\ UNCHANGED <<itAcquired, itReads, itNexts, itReturns, itSource, itYielded>>

\* An exit by exception that skips the release.
ItReadRejectsNoFinally ==
    /\ itState = "awaitRead"
    /\ itState' = "completed"
    /\ itQueue' = <<>>
    /\ itExit' = "error"
    /\ UNCHANGED itReleases
    /\ UNCHANGED <<itAcquired, itReads, itNexts, itReturns, itSource, itYielded>>

\* reader.read() rejects: the exception leaves the loop through the finally block.
ItReadRejects ==
    /\ itState = "awaitRead"
    /\ ItFinally("error")
    /\ UNCHANGED <<itAcquired, itReads, itNexts, itReturns, itSource, itYielded>>


\* ===================================================== the cleaning step ====
Pieces == {StartOfText, Hello, Continuation, STOP, END, EndOfText, PUBLIC_SEP_TOKEN, <<" ">>}

RECURSIVE Texts(_)
Texts(n) ==
    IF n = 0 THEN {<<>>}
    ELSE LET shorter == Texts(n - 1)
         IN shorter \cup {t \o piece : t \in shorter, piece \in Pieces}

\* Stop sequence lists: none, one, two in either order, and the empty string, which
\* z.array(z.string()) admits.
StopLists == { <<>>, <<STOP>>, <<STOP, END>>, <<END, STOP>>, << <<>> >> }

ClIdle ==
    /\ clPc = "input"
    /\ clRaw = <<>>
    /\ clPrompt = <<>>
    /\ clStops = <<>>
    /\ clOut = <<>>
    /\ clOut2 = <<>>

ClInit ==
    /\ clPc = "input"
    /\ clRaw \in Texts(MaxPieces)
    /\ clPrompt \in {Hello, <<>>}
    /\ clStops \in StopLists
    /\ clOut = <<>>
    /\ clOut2 = <<>>

\* Lines 131-142 on the input.
ApplyClean ==
    /\ clPc = "input"
    /\ clOut' = Clean(clRaw, clPrompt, clStops)
    /\ clPc' = "cleaned"
    /\ UNCHANGED <<clRaw, clPrompt, clStops, clOut2>>

\* Lines 131-142 on their own output, with the same prompt and stop sequences.
ApplyCleanAgain ==
    /\ clPc = "cleaned"
    /\ clOut2' = Clean(clOut, clPrompt, clStops)
    /\ clPc' = "recleaned"
    /\ UNCHANGED <<clRaw, clPrompt, clStops, clOut>>

\* ================================================== loading the models ====
\* Raw parameters: accepted with and without stop, and out of range.
RawParameters ==
    { [temperature |-> 1, truncate |-> 1000, max_new_tokens |-> 1024, stop |-> <<STOP>>],
      [temperature |-> 0, truncate |-> 1000, max_new_tokens |-> 20],
      [temperature |-> 2, truncate |-> 1000, max_new_tokens |-> 20] }

\* The endpoint arrays a raw model may carry.
EndpointLists == UNION {[1..n -> RawEndpoints] : n \in 0..MaxEndpoints}

\* One entry of MODELS: name, and whichever of endpoints, prepromptUrl and parameters
\* it has.
RawModel(name, eps, pars, keys) ==
    [k \in {"name"} \cup keys |->
       CASE k = "name" -> name
         [] k = "endpoints" -> eps
         [] k = "prepromptUrl" -> "https://cfg.example/preprompt"
         [] k = "preprompt" -> "Be kind."
         [] OTHER -> pars]

RawModels ==
    { RawModel(name, eps, pars, keys) :
        name \in {"m", ""}, eps \in EndpointLists, pars \in RawParameters,
        keys \in SUBSET {"endpoints", "prepromptUrl", "parameters"} }

\* MODELS: arrays of one model, and arrays of two models that are accepted.
RawConfigs ==
    {<<m>> : m \in RawModels}
      \cup { << RawModel("a", <<RawTGI>>, <<>>, ka), RawModel("b", <<>>, <<>>, kb) >> :
               ka \in {{"endpoints"}, {"endpoints", "prepromptUrl"}},
               kb \in {{"preprompt"}, {"prepromptUrl"}} }

NotLoaded == [ok |-> FALSE, error |-> "not loaded"]

CfgIdle ==
    /\ cfgPc = "raw"
    /\ MODELS = <<>>
    /\ fetchedTexts = <<>>
    /\ models = NotLoaded
    /\ fetchedTextsAgain = <<>>
    /\ modelsAgain = NotLoaded

CfgInit ==
    /\ cfgPc = "raw"
    /\ MODELS \in RawConfigs
    /\ fetchedTexts = <<>>
    /\ models = NotLoaded
    /\ fetchedTextsAgain = <<>>
    /\ modelsAgain = NotLoaded

\* The module is evaluated: MODELS is parsed and every model processed (lines 112-125).
Load ==
    /\ cfgPc = "raw"
    /\ \E t \in [1..Len(MODELS) -> Fetched] :
          /\ fetchedTexts' = t
          /\ models' = LoadModels(MODELS, t)
    /\ cfgPc' = "loaded"
    /\ UNCHANGED <<MODELS, fetchedTextsAgain, modelsAgain>>

\* The same MODELS is loaded a second time.
LoadAgain ==
    /\ cfgPc = "loaded"
    /\ \E t \in [1..Len(MODELS) -> Fetched] :
          /\ fetchedTextsAgain' = t
          /\ modelsAgain' = LoadModels(MODELS, t)
    /\ cfgPc' = "reloaded"
    /\ UNCHANGED <<MODELS, fetchedTexts, models>>

\* ========================================== two calls in the same process ====
\* Everything a call of generateFromDefaultEndpoint holds: its arguments, its locals
\* and the objects it created (lines 15-29), all of them its own.
Snapshot ==
    [pc |-> pc, host |-> host, prompt |-> prompt, newParameters |-> newParameters,
     fetchCount |-> fetchCount, resp |-> resp, aborted |-> aborted,
     abortedInFlight |-> abortedInFlight, body |-> body, locked |-> locked,
     acquired |-> acquired, releases |-> releases, prodPc |-> prodPc, prodErr |-> prodErr,
     upReqs |-> upReqs, lateReqs |-> lateReqs, upDone |-> upDone, produced |-> produced,
     enqueued |-> enqueued, result |-> result, outcome |-> outcome,
     delivered |-> delivered, parameters |-> parameters,
     randomEndpoint |-> randomEndpoint, clientBaseURL |-> clientBaseURL, sent |-> sent]

\* A call that has not started.
FreshCall ==
    [pc |-> "idle", host |-> "none", prompt |-> <<>>, newParameters |-> <<>>,
     fetchCount |-> 0, resp |-> NoResp, aborted |-> FALSE,
     abortedInFlight |-> FALSE, body |-> NoStream, locked |-> FALSE,
     acquired |-> FALSE, releases |-> 0, prodPc |-> "none", prodErr |-> "none",
     upReqs |-> 0, lateReqs |-> 0, upDone |-> FALSE, produced |-> <<>>,
     enqueued |-> <<>>, result |-> <<>>, outcome |-> NoOutcome,
     delivered |-> <<>>, parameters |-> <<>>,
     randomEndpoint |-> <<>>, clientBaseURL |-> "none", sent |-> <<>>]

TwoInit == other = FreshCall

\* One AbortController at module level: the call that resumes sees the signal as the
\* call that ran before it left it.
SharedSignal(call) == aborted

\* Line 27: the AbortController is made inside the call, so the signal a call resumes
\* with is its own.
ResumedSignal(call) == call.aborted

\* The event loop leaves the call that was running at its await and resumes the other
\* one, with the state that one was suspended in.
Switch ==
    /\ other' = Snapshot
    /\ pc' = other.pc
    /\ host' = other.host
    /\ prompt' = other.prompt
    /\ newParameters' = other.newParameters
    /\ fetchCount' = other.fetchCount
    /\ resp' = other.resp
    /\ aborted' = ResumedSignal(other)
    /\ abortedInFlight' = other.abortedInFlight
    /\ body' = other.body
    /\ locked' = other.locked
    /\ acquired' = other.acquired
    /\ releases' = other.releases
    /\ prodPc' = other.prodPc
    /\ prodErr' = other.prodErr
    /\ upReqs' = other.upReqs
    /\ lateReqs' = other.lateReqs
    /\ upDone' = other.upDone
    /\ produced' = other.produced
    /\ enqueued' = other.enqueued
    /\ result' = other.result
    /\ outcome' = other.outcome
    /\ delivered' = other.delivered
    /\ parameters' = other.parameters
    /\ randomEndpoint' = other.randomEndpoint
    /\ clientBaseURL' = other.clientBaseURL
    /\ sent' = other.sent
    /\ UNCHANGED defaultModel

\* ========================================================== specifications ====
vars == <<reqVars, defaultModel, callVars, itVars, clVars, cfgVars, other>>

\* What a step of a call after its dispatch leaves alone, and what every step of a
\* call leaves alone.
afterDispatch == <<defaultModel, callVars, itVars, clVars, cfgVars, other>>
outsideCall == <<itVars, clVars, cfgVars, other>>

Init == ReqInit /\ DispInit /\ ItInit /\ ClIdle /\ CfgIdle /\ TwoInit

\* One call of generateFromDefaultEndpoint.
Next ==
    \/ Dispatch /\ UNCHANGED outsideCall
    \/ FetchResolves /\ UNCHANGED afterDispatch
    \/ FetchRejects /\ UNCHANGED afterDispatch
    \/ ErrTextResolves /\ UNCHANGED afterDispatch
    \/ CreateResolves /\ UNCHANGED afterDispatch
    \/ CreateRejects /\ UNCHANGED afterDispatch
    \/ UpstreamChunk /\ UNCHANGED afterDispatch
    \/ UpstreamDone /\ UNCHANGED afterDispatch
    \/ UpstreamError /\ UNCHANGED afterDispatch
    \/ Cancel /\ UNCHANGED afterDispatch
    \/ NetChunk /\ UNCHANGED afterDispatch
    \/ NetEnd /\ UNCHANGED afterDispatch
    \/ NetError /\ UNCHANGED afterDispatch
    \/ ReadSettles /\ UNCHANGED afterDispatch

Spec == Init /\ [][Next]_vars

\* The same call with a backend that answers every request and ends or fails every
\* body, and an event loop that runs every continuation that is ready.
BackendResponds ==
    (FetchResolves \/ FetchRejects \/ CreateResolves \/ CreateRejects \/ ErrTextResolves)
        /\ UNCHANGED afterDispatch
BackendEndsBody ==
    (NetEnd \/ NetError \/ UpstreamDone \/ UpstreamError) /\ UNCHANGED afterDispatch
ContinuationRuns == ReadSettles /\ UNCHANGED afterDispatch

SpecLive ==
    /\ Init
    /\ [][Next]_vars
    /\ WF_vars(BackendResponds)
    /\ WF_vars(BackendEndsBody)
    /\ WF_vars(ContinuationRuns)

\* One generator made by streamToAsyncIterable and its consumer.
notIterator == <<reqVars, defaultModel, callVars, clVars, cfgVars, other>>

IterNext ==
    \/ ItConsumerNext /\ UNCHANGED notIterator
    \/ ItConsumerReturn /\ UNCHANGED notIterator
    \/ ItReadValue /\ UNCHANGED notIterator
    \/ ItReadDone /\ UNCHANGED notIterator
    \/ ItReadRejects /\ UNCHANGED notIterator

SpecIter == Init /\ [][IterNext]_vars

\* Either of the two, which share no state: a call, or a generator and its consumer.
ReqUntouched == pc = "idle"
ItUntouched == itState = "suspendedStart" /\ itNexts = 0 /\ itReturns = 0

EitherNext ==
    \/ ItUntouched /\ Next
    \/ ReqUntouched /\ IterNext

SpecEither == Init /\ [][EitherNext]_vars

\* The cleaning step on every text of the bounded input set.
CleanInit == ReqInit /\ DispInit /\ ItInit /\ ClInit /\ CfgIdle /\ TwoInit

notClean == <<reqVars, defaultModel, callVars, itVars, cfgVars, other>>

CleanNext ==
    \/ ApplyClean /\ UNCHANGED notClean
    \/ ApplyCleanAgain /\ UNCHANGED notClean

SpecClean == CleanInit /\ [][CleanNext]_vars

\* models.ts evaluated twice on every raw configuration of the bounded input set.
ConfigInit == ReqInit /\ DispInit /\ ItInit /\ ClIdle /\ CfgInit /\ TwoInit

notConfig == <<reqVars, defaultModel, callVars, itVars, clVars, other>>

ConfigNext ==
    \/ Load /\ UNCHANGED notConfig
    \/ LoadAgain /\ UNCHANGED notConfig

SpecConfig == ConfigInit /\ [][ConfigNext]_vars

\* Two calls in one process: a step is a step of the call that is running, or the
\* event loop passing from one call to the other. Each call is given no parameters
\* and a backend that delivers at most one chunk.
notCalls == <<itVars, clVars, cfgVars>>

TwoNext ==
    \/ Dispatch /\ parameters' = <<>> /\ UNCHANGED outsideCall
    \/ FetchResolves /\ UNCHANGED afterDispatch
    \/ FetchRejects /\ UNCHANGED afterDispatch
    \/ ErrTextResolves /\ UNCHANGED afterDispatch
    \/ CreateResolves /\ UNCHANGED afterDispatch
    \/ CreateRejects /\ UNCHANGED afterDispatch
    \/ UpstreamChunk /\ produced = <<>> /\ UNCHANGED afterDispatch
    \/ UpstreamDone /\ UNCHANGED afterDispatch
    \/ UpstreamError /\ UNCHANGED afterDispatch
    \/ Cancel /\ UNCHANGED afterDispatch
    \/ NetChunk /\ produced = <<>> /\ UNCHANGED afterDispatch
    \/ NetEnd /\ UNCHANGED afterDispatch
    \/ NetError /\ UNCHANGED afterDispatch
    \/ ReadSettles /\ UNCHANGED afterDispatch
    \/ Switch /\ UNCHANGED notCalls

SpecTwo == Init /\ [][TwoNext]_vars

\* ================================================================== claims ====
Range(seq) == {seq[i] : i \in 1..Len(seq)}

\* C1 (SpecIter): once the generator has taken the reader, it calls releaseLock exactly
\* once when it is left, whether the reader reported done, the consumer returned early
\* or a read failed; before it is left, and when no reader was taken, it calls it never.
C1_ReleasedExactlyOnce ==
    itReleases = IF itAcquired /\ itState = "completed" THEN 1 ELSE 0

\* C1: the consumer stopped after the first value and the reader was released once.
C1_Witness ==
    /\ itExit = "return"
    /\ Len(itYielded) = 1
    /\ itReleases = 1

\* C2 (Spec): in no step taken while the signal is aborted does the number of
\* next-chunk requests made to the completion iterator grow.
C2_NoRequestAfterAbort ==
    [][aborted => upReqs' = upReqs]_vars

\* C2: the signal fired mid-stream, after a delta had been enqueued, and a chunk that
\* arrived afterwards ended the loop.
C2_Witness ==
    /\ aborted
    /\ Len(enqueued) >= 1
    /\ Len(produced) > Len(enqueued)
    /\ prodPc # "awaitChunk"

C4_InOrder ==
    /\ IsPrefix(itYielded, itSource)
    /\ IsPrefix(result, produced)

\* C4: the read loop has accumulated two chunks and is reading on.
C4_Witness ==
    /\ pc = "reading"
    /\ Len(result) >= 2

C6_AbortedOutcome ==
    (Terminal /\ abortedInFlight) => outcome.kind = "Aborted"

\* C7 as stated (Spec): a call that took the reader of the response body has released
\* it when it ends.
C7_ReaderReleased ==
    (Terminal /\ acquired) => (~locked /\ releases = 1)

\* C8 as stated (SpecClean): cleaning the cleaned text again changes nothing.
C8_Idempotent ==
    clPc = "recleaned" => clOut2 = clOut

\* The case of C9: prompt "Hello", stop sequence "STOP", text "Hello continuation STOP".
C9_Case ==
    /\ clPc # "input"
    /\ clRaw = Hello \o Continuation \o STOP
    /\ clPrompt = Hello
    /\ clStops = <<STOP>>

\* C9 as stated: the cleaned text is "continuation".
C9_ExactlyContinuation ==
    C9_Case => clOut = <<"c","o","n","t","i","n","u","a","t","i","o","n">>

\* C9 (SpecClean), amended: the cleaned text is " continuation", prompt and stop
\* sequence removed, whitespace trimmed at the end only.
C9_LeadingSpaceKept ==
    C9_Case => clOut = <<" ","c","o","n","t","i","n","u","a","t","i","o","n">>

\* C9: the text of the case has been cleaned.
C9_Witness ==
    C9_Case /\ clPc = "cleaned" /\ Len(clOut) = 13

\* C10 as stated (Spec): the text returned ends with no non-empty stop sequence of the
\* merged parameters and not with the end-of-text marker.
C10_NoTrailingStop ==
    pc = "returned" =>
        LET stops == StopOf(newParameters) \o <<EndOfText>>
        IN \A i \in 1..Len(stops) :
              stops[i] # <<>> => ~EndsWith(outcome.text, stops[i])

\* C11 as stated (SpecConfig): a raw model without an `endpoints` field makes the load
\* fail, and every model of a load that succeeded has at least one endpoint.
C11_EveryModelHasEndpoint ==
    cfgPc # "raw" =>
        /\ (\E i \in 1..Len(MODELS) : "endpoints" \notin DOMAIN MODELS[i]) => ~models.ok
        /\ models.ok =>
              \A i \in 1..Len(models.models) :
                 /\ "endpoints" \in DOMAIN models.models[i]
                 /\ Len(models.models[i].endpoints) >= 1

\* C12 (Spec): a response that is ok and has no body makes the call throw the Error
\* "Response body is empty" with no reader taken and no text read or handed over; a
\* response that is not ok and has no body fails as a response that is not ok does,
\* with the text of the response as the message, which is not that message.
C12_EmptyBodyFails ==
    /\ (resp.got /\ resp.ok /\ ~resp.hasBody) =>
          /\ pc = "thrown"
          /\ outcome = Thrown("Error", EmptyBodyMessage)
          /\ ~acquired
          /\ result = <<>>
          /\ delivered = <<>>
    /\ (resp.got /\ ~resp.ok /\ ~resp.hasBody) =>
          /\ pc \in {"awaitErrText", "thrown"}
          /\ pc = "thrown" => outcome = ErrorOf(resp)
          /\ outcome # Thrown("Error", EmptyBodyMessage)
          /\ ~acquired

\* C12: a TGI response that is ok and has no body made the call throw.
C12_Witness ==
    /\ host = "tgi"
    /\ resp.got /\ resp.ok /\ ~resp.hasBody
    /\ pc = "thrown"
    /\ outcome.text = EmptyBodyMessage

\* The states of a request: Idle 0, Dispatching 1, Streaming 2, the terminal ones 3.
Rank(p) ==
    CASE p = "idle" -> 0
      [] p \in {"awaitFetch", "awaitCreate", "awaitErrText"} -> 1
      [] p = "reading" -> 2
      [] OTHER -> 3

\* C13 (SpecLive): a step never takes a request back, enters Dispatching from Idle only,
\* Streaming from Dispatching only and Completed from Streaming only; a request that
\* has ended stays as it ended, with the same outcome; and with a backend that answers
\* and ends or fails every body, every request that was dispatched ends.
C13_StateMachine ==
    /\ [][ /\ Rank(pc') >= Rank(pc)
           /\ Rank(pc') \in {1, 2} => Rank(pc') - Rank(pc) <= 1
           /\ pc' = "returned" => pc \in {"reading", "returned"}
           /\ Terminal => (pc' = pc /\ outcome' = outcome) ]_vars
    /\ (pc # "idle") ~> Terminal

\* C13: a SageMaker request went through every state and returned.
C13_Witness ==
    /\ host = "sagemaker"
    /\ pc = "returned"
    /\ Len(result) >= 1
    /\ releases = 1

\* C14 (SpecTwo): no step changes the shared default model, and no step of the call
\* that is running changes anything the other call holds (its signal, the text it has
\* read, its outcome): the other call's state changes only when the event loop passes
\* to it, and then it resumes with exactly the state it was suspended in.
C14_Isolated ==
    [][ /\ defaultModel' = defaultModel
        /\ \/ other' = other
           \/ (other' = Snapshot /\ Snapshot' = other) ]_vars

\* C14: one call was aborted and has thrown, the other one has read a chunk since and
\* goes on, its signal not fired.
C14_Witness ==
    /\ other.pc = "thrown"
    /\ other.aborted
    /\ pc = "reading"
    /\ Len(result) = 1
    /\ ~aborted

C16_Merged ==
    pc # "idle" =>
        /\ DOMAIN newParameters =
              DOMAIN DefaultParameters \cup DOMAIN parameters \cup {"return_full_text"}
        /\ \A k \in DOMAIN newParameters \ {"return_full_text"} :
              newParameters[k] =
                 IF k \in DOMAIN parameters THEN parameters[k] ELSE DefaultParameters[k]
        /\ newParameters.return_full_text = FALSE
        /\ IF host = "openai-compatible"
           THEN /\ sent.max_tokens = newParameters.max_new_tokens
                /\ sent.stop = newParameters.stop
                /\ sent.temperature = newParameters.temperature
           ELSE \A k \in DOMAIN newParameters : sent[k] = newParameters[k]
        /\ defaultModel = DefaultModel

\* C16: a TGI request was sent with an overridden stop list, and with return_full_text
\* false although the defaults have it true.
C16_Witness ==
    /\ host = "tgi"
    /\ pc = "awaitFetch"
    /\ parameters = [stop |-> <<END, STOP>>]
    /\ sent.stop = <<END, STOP>>
    /\ sent.max_new_tokens = 1024
    /\ DefaultParameters.return_full_text
    /\ ~sent.return_full_text

\* C17 as stated (Spec): a call on an OpenAI-compatible endpoint whose completion
\* delivered deltas and ended, with no cancellation and no error, has returned, having
\* read every delta.
C17_OpenAICompletes ==
    (/\ Terminal
     /\ host = "openai-compatible"
     /\ produced # <<>>
     /\ upDone /\ ~aborted /\ prodErr = "none") =>
        (pc = "returned" /\ delivered = produced)

\* Reads issued and not yet settled: every read settles with a value, with done or
\* with a rejection.
Outstanding ==
    itReads - Len(itSource) - (IF itExit \in {"done", "error"} THEN 1 ELSE 0)

C19_NoCallOnCancelledStream ==
    aborted => prodErr # "TypeError"

\* C20 as stated (Spec): the OpenAI client is made with the baseURL of the endpoint
\* that was drawn.
C20_ClientUsesBaseURL ==
    host = "openai-compatible" => clientBaseURL = randomEndpoint.baseURL

====
